---- MODULE Spec2Model ----
(***************************************************************************)
(* Model of the chat API route of unitedformulas-chemist                   *)
(* (src/src/app/api/chat/route.ts, lines 1-428) and of the history the     *)
(* chat widget sends to it (src/src/components/ChatWidget.tsx).            *)
(*                                                                         *)
(* Text is modelled by its length (String.length) together with the        *)
(* position the entry had in the request body, so that slicing, filtering  *)
(* and reordering are all visible.                                         *)
(***************************************************************************)
EXTENDS Integers, Sequences, FiniteSets, TLC

\* ------------------------------------------------------------------------
\* Program constants (route.ts:17-21)
\* ------------------------------------------------------------------------
MAX_MESSAGE_LENGTH == 1000
MAX_HISTORY_ITEMS == 12
MAX_HISTORY_CONTENT_LENGTH == 6000
RATE_LIMIT_WINDOW_MS == 60000
RATE_LIMIT_MAX_REQUESTS == 30
\* route.ts:25: max of the requestRateLimit LRUCache
RATE_LIMIT_STORE_MAX == 500
\* route.ts:14: ttl of the metadata LRUCache
\* route.ts:335: pdfText.slice(0, 30000)
TECHNICAL_RECORD_MAX == 30000

CACHE_TTL_MS == 300000

\* ------------------------------------------------------------------------
\* Bounds of the model
\* ------------------------------------------------------------------------
\* longest run of equal entries in a generated request history
MaxRun == 13
\* longest history enumerated over every kind of entry
MaxShort == 3
\* requests of distinct other clients that arrive in one burst
OtherBurst == 250
\* requests per window that the clients without a usable header send
MaxUnknown == 2
\* requests the handler serves in one run
MaxRequests == 4
\* requests in flight at the same time
MaxInFlight == 2

\* requests of a run that serves them one after the other
MaxSerial == 2

\* entries of product_metadata.json
\* rows of the CSV of one harvest
MaxRows == 2

MaxRecords == 2

VARIABLES
    hpc,        \* history pipeline: "input" -> "sanitized" -> "mapped"
    histIn,     \* body.history as received
    history,    \* const history = sanitizeHistory(body?.history)   (route.ts:118)
    mappedHistory,  \* the history handed to chatModel.startChat    (route.ts:401-413)
    now,              \* Date.now(), in milliseconds
    requestRateLimit, \* the quota store                             (route.ts:24-27)
    admittedInWindow, \* per key: requests admitted since its window began
    lastAdmission,    \* the last isRateLimited call and what it saw and did
    apiKeySet,        \* process.env.GOOGLE_GENERATIVE_AI_API_KEY is set
    cache,            \* the metadata cache                          (route.ts:12-15)
    req,              \* the requests in flight, one record per slot
    arrived,          \* requests received so far
    lastFill,         \* the last cache.set call: how many so far, and when
    lastLookup,       \* the last cache.get call
    rpc,              \* premium record lookup: "input" -> "resolved"
    productMetadata,  \* src/data/product_metadata.json, in stored order (route.ts:288-296)
    selectedDocument, \* the document identifier looked up              (route.ts:304)
    premiumMatch      \* the record found, or null                      (route.ts:299-320)

histVars == <<hpc, histIn, history, mappedHistory>>

quotaVars == <<now, requestRateLimit, admittedInWindow, lastAdmission>>

handlerVars == <<apiKeySet, cache, req, arrived, lastFill, lastLookup>>

resolverVars == <<rpc, productMetadata, selectedDocument, premiumMatch>>

vars == <<hpc, histIn, history, mappedHistory,
          now, requestRateLimit, admittedInWindow, lastAdmission,
          apiKeySet, cache, req, arrived, lastFill, lastLookup,
          rpc, productMetadata, selectedDocument, premiumMatch>>

\* ------------------------------------------------------------------------
\* Small helpers
\* ------------------------------------------------------------------------
Min(a, b) == IF a <= b THEN a ELSE b

Max(a, b) == IF a >= b THEN a ELSE b

\* n copies of x
Rep(x, n) == [i \in 1..n |-> x]

\* Array.prototype.slice(-n)
SliceLast(s, n) == SubSeq(s, Max(1, Len(s) - n + 1), Len(s))

RECURSIVE SumContent(_)
SumContent(s) == IF s = << >> THEN 0 ELSE Head(s).content + SumContent(Tail(s))

Ids(s) == [i \in 1..Len(s) |-> s[i].id]

\* ------------------------------------------------------------------------
\* Raw request history (the unknown JSON value body.history)
\* ------------------------------------------------------------------------
\* body.history: array = FALSE is a value that is not an array (missing,
\* null, a string, an object)
NotArray == [array |-> FALSE, items |-> << >>]

ArrayOf(s) == [array |-> TRUE, items |-> s]

\* content that is not a string (missing, number, null, ...)
NonString == -1

\* One raw entry without its position: obj = FALSE is a non-object entry
\* (string, number, null); content is the length of the content string.
Entry(obj, role, content) == [obj |-> obj, role |-> role, content |-> content]

U1 == Entry(TRUE, "user", 1)
UK == Entry(TRUE, "user", MAX_MESSAGE_LENGTH)
UX == Entry(TRUE, "user", MAX_MESSAGE_LENGTH + 500)
A1 == Entry(TRUE, "assistant", 1)
AK == Entry(TRUE, "assistant", MAX_MESSAGE_LENGTH)
S1 == Entry(TRUE, "system", 1)
UE == Entry(TRUE, "user", 0)
AN == Entry(TRUE, "assistant", NonString)
JK == Entry(FALSE, "none", NonString)

Kinds == {U1, UK, UX, A1, AK, S1, UE, AN, JK}

RunKinds == {U1, UK, A1, AK, JK}

\* attach to every entry the position it has in the request body
Numbered(s) == [i \in 1..Len(s) |-> [id |-> i, obj |-> s[i].obj, role |-> s[i].role, content |-> s[i].content]]

RECURSIVE SeqsUpTo(_, _)
SeqsUpTo(S, n) == IF n = 0 THEN {<< >>}
                  ELSE LET shorter == SeqsUpTo(S, n - 1)
                       IN shorter \cup {Append(s, x) : s \in shorter, x \in S}

\* every history of at most MaxShort entries over every kind of entry
ShortHists == SeqsUpTo(Kinds, MaxShort)

\* an optional first entry of any kind followed by two runs of equal entries
RunHists == {h \o Rep(k1, n1) \o Rep(k2, n2) :
                h \in SeqsUpTo(Kinds, 1), k1 \in RunKinds, n1 \in 0..MaxRun,
                k2 \in RunKinds, n2 \in 0..MaxRun}

\* ChatWidget.tsx:11-17,39,50,63-67: the widget's messages open with the
\* assistant greeting, then alternate user message / assistant reply; the
\* request carries the messages before the one being submitted.
GreetingLength == 130

WidgetHists == {<<Entry(TRUE, "assistant", GreetingLength)>> \o h : h \in
                   {<< >>, <<U1, A1>>, <<UK, AK>>, <<U1, AK, UK, A1>>,
                    <<U1, A1, U1, A1, U1, A1, U1, A1, U1, A1, U1, A1>>,
                    <<UK, AK, UK, AK, UK, AK, UK, AK>>}}

HistInputs == {NotArray} \cup {ArrayOf(Numbered(h)) : h \in ShortHists \cup RunHists \cup WidgetHists}

\* ------------------------------------------------------------------------
\* sanitizeHistory (route.ts:51-71)
\* ------------------------------------------------------------------------
\* mutant: slice(0, MAX_HISTORY_ITEMS) in place of slice(-MAX_HISTORY_ITEMS)
TrimmedHistoryKeepsOldest(h) ==
    LET objects == SelectSeq(h, LAMBDA msg : msg.obj)
        coerced == [i \in 1..Len(objects) |->
                      [id |-> objects[i].id,
                       role |-> IF objects[i].role = "user" THEN "user" ELSE "model",
                       content |-> IF objects[i].content # NonString
                                   THEN Min(objects[i].content, MAX_MESSAGE_LENGTH)
                                   ELSE 0]]
        nonEmpty == SelectSeq(coerced, LAMBDA msg : msg.content > 0)
    IN SubSeq(nonEmpty, 1, Min(Len(nonEmpty), MAX_HISTORY_ITEMS))

\* route.ts:54-61: filter objects, coerce role, cut content, drop empty
\* content, keep the last MAX_HISTORY_ITEMS
TrimmedHistory(h) ==
    LET objects == SelectSeq(h, LAMBDA msg : msg.obj)
        coerced == [i \in 1..Len(objects) |->
                      [id |-> objects[i].id,
                       role |-> IF objects[i].role = "user" THEN "user" ELSE "model",
                       content |-> IF objects[i].content # NonString
                                   THEN Min(objects[i].content, MAX_MESSAGE_LENGTH)
                                   ELSE 0]]
        nonEmpty == SelectSeq(coerced, LAMBDA msg : msg.content > 0)
    IN SliceLast(nonEmpty, MAX_HISTORY_ITEMS)

\* mutant: the running total is tested before the entry is added to it
OverBudgetBeforeAdding(totalLength, msg) == totalLength > MAX_HISTORY_CONTENT_LENGTH

\* route.ts:65: the test that drops an entry
OverBudget(totalLength, msg) == totalLength + msg.content > MAX_HISTORY_CONTENT_LENGTH

\* route.ts:63-70: the filter with the running total
RECURSIVE BudgetFilter(_, _)
BudgetFilter(s, totalLength) ==
    IF s = << >> THEN << >>
    ELSE IF OverBudget(totalLength, Head(s))
         THEN BudgetFilter(Tail(s), totalLength)
         ELSE <<Head(s)>> \o BudgetFilter(Tail(s), totalLength + Head(s).content)

sanitizeHistory(h) ==
    IF ~h.array THEN << >> ELSE BudgetFilter(TrimmedHistory(h.items), 0)

\* ------------------------------------------------------------------------
\* mappedHistory (route.ts:401-409)
\* ------------------------------------------------------------------------
\* mutant: if in place of while, a single leading turn is dropped
DropFirstModelOnly(s) ==
    IF s # << >> /\ Head(s).role = "model" THEN Tail(s) ELSE s

\* route.ts:407-409: while (length > 0 && [0].role === 'model') shift()
RECURSIVE DropLeadingModel(_)
DropLeadingModel(s) ==
    IF s # << >> /\ Head(s).role = "model" THEN DropLeadingModel(Tail(s)) ELSE s

\* mutant: the role test of the widget ('assistant') in place of 'user'
ToChatTurnAssistant(msg) == [id |-> msg.id, role |-> IF msg.role = "assistant" THEN "model" ELSE "user", text |-> msg.content]

\* route.ts:401-404: {role, parts: [{text: content}]}
ToChatTurn(msg) == [id |-> msg.id, role |-> IF msg.role = "user" THEN "user" ELSE "model", text |-> msg.content]

MappedHistory(h) == DropLeadingModel([i \in 1..Len(h) |-> ToChatTurn(h[i])])

\* ------------------------------------------------------------------------
\* Time
\* ------------------------------------------------------------------------
\* the instants at which something happens: the start, the last millisecond
\* of a window begun at 0, its expiry, and one window later
Instants == {0, RATE_LIMIT_WINDOW_MS - 1, RATE_LIMIT_WINDOW_MS, 2 * RATE_LIMIT_WINDOW_MS}

\* ------------------------------------------------------------------------
\* The x-forwarded-for header and getClientIp (route.ts:29-32)
\* ------------------------------------------------------------------------
\* A header is absent or a comma-separated list; each part is an address
\* (possibly empty) with or without surrounding blanks.
NoHeader == [present |-> FALSE, parts |-> << >>]

Part(pad, ip) == [pad |-> pad, ip |-> ip]

Header(parts) == [present |-> TRUE, parts |-> parts]

ClientA == "198.51.100.7"

Unknown == "unknown"

Keys == {ClientA, Unknown}

\* String.prototype.trim on one part
TrimPart(p) == p.ip

\* route.ts:30-31: forwardedFor?.split(',')[0].trim() || 'unknown'
getClientIp(h) ==
    IF ~h.present THEN Unknown
    ELSE IF TrimPart(Head(h.parts)) = "" THEN Unknown
    ELSE TrimPart(Head(h.parts))

HeadersOfClientA == {Header(<<Part(FALSE, ClientA)>>),
                     Header(<<Part(TRUE, ClientA), Part(TRUE, "10.0.0.1")>>)}

HeadersUnknown == {NoHeader, Header(<<Part(TRUE, "")>>)}

\* ------------------------------------------------------------------------
\* The quota store: an LRUCache with max 500 and ttl 60000 (route.ts:23-27)
\* ------------------------------------------------------------------------
\* A store is [entries, order]. entries maps each key the model follows to
\* its RateLimitEntry and the time it was last set (the start of its ttl).
\* order is the recency list, least recently used first, as segments
\* [key, n]: n = 1 for a key the model follows, and a segment of key
\* OtherKeys stands for the entries of n distinct other clients.
NoEntry == [present |-> FALSE, count |-> 0, expiresAt |-> 0, start |-> 0]

RateLimitEntry(count, expiresAt) == [present |-> TRUE, count |-> count, expiresAt |-> expiresAt, start |-> 0]

OtherKeys == "other-clients"

EmptyStore == [entries |-> [k \in Keys |-> NoEntry], order |-> << >>]

RECURSIVE StoreSize(_)
StoreSize(order) == IF order = << >> THEN 0 ELSE Head(order).n + StoreSize(Tail(order))

\* adjacent segments of other clients are one segment
RECURSIVE Merged(_)
Merged(order) ==
    IF Len(order) < 2 THEN order
    ELSE IF order[1].key = OtherKeys /\ order[2].key = OtherKeys
         THEN Merged(<<[key |-> OtherKeys, n |-> order[1].n + order[2].n]>> \o SubSeq(order, 3, Len(order)))
         ELSE <<order[1]>> \o Merged(Tail(order))

WithoutKey(order, k) == Merged(SelectSeq(order, LAMBDA seg : seg.key # k))

\* move key k to the most recently used end
MovedToTail(order, k) == Append(WithoutKey(order, k), [key |-> k, n |-> 1])

\* LRUCache eviction: drop least recently used entries until `room` slots fit
RECURSIVE Evicted(_, _)
Evicted(store, excess) ==
    IF excess <= 0 \/ store.order = << >> THEN store
    ELSE LET seg == Head(store.order)
         IN IF seg.key = OtherKeys
            THEN IF seg.n > excess
                 THEN [store EXCEPT !.order = <<[key |-> OtherKeys, n |-> seg.n - excess]>> \o Tail(store.order)]
                 ELSE Evicted([store EXCEPT !.order = Tail(store.order)], excess - seg.n)
            ELSE Evicted([entries |-> [store.entries EXCEPT ![seg.key] = NoEntry],
                          order |-> Tail(store.order)], excess - 1)

\* LRUCache.get: a stale entry (age > ttl) is deleted and undefined is
\* returned; a live one becomes the most recently used
LruGet(store, k, t) ==
    LET e == store.entries[k]
    IN IF ~e.present THEN [value |-> NoEntry, store |-> store]
       ELSE IF t - e.start > RATE_LIMIT_WINDOW_MS
            THEN [value |-> NoEntry,
                  store |-> [entries |-> [store.entries EXCEPT ![k] = NoEntry],
                             order |-> WithoutKey(store.order, k)]]
            ELSE [value |-> e, store |-> [store EXCEPT !.order = MovedToTail(store.order, k)]]

\* LRUCache.set: the ttl starts again; a new key evicts the least recently
\* used entry when the store is full
LruSet(store, k, v, t) ==
    LET room == IF store.entries[k].present THEN store
                ELSE Evicted(store, StoreSize(store.order) + 1 - RATE_LIMIT_STORE_MAX)
    IN [entries |-> [room.entries EXCEPT ![k] = [v EXCEPT !.start = t]],
        order |-> MovedToTail(room.order, k)]

\* mutant: the threshold test lets one request too many through
QuotaReachedOffByOne(entry) == entry.count > RATE_LIMIT_MAX_REQUESTS

\* route.ts:43
QuotaReached(entry) == entry.count >= RATE_LIMIT_MAX_REQUESTS

\* mutant: a window is still open at the instant it expires
WindowOverStrict(entry, t) == ~entry.present \/ entry.expiresAt < t

\* route.ts:38
WindowOver(entry, t) == ~entry.present \/ entry.expiresAt <= t

\* mutant: the incremented entry is not written back
isRateLimitedIncrementLost(store, clientIp, t) ==
    LET got == LruGet(store, clientIp, t)
        entry == got.value
    IN IF WindowOver(entry, t)
       THEN [limited |-> FALSE,
             store |-> LruSet(got.store, clientIp, RateLimitEntry(1, t + RATE_LIMIT_WINDOW_MS), t)]
       ELSE IF QuotaReached(entry)
            THEN [limited |-> TRUE, store |-> got.store]
            ELSE [limited |-> FALSE, store |-> got.store]

\* route.ts:34-49; the result is the returned flag and the store afterwards
isRateLimited(store, clientIp, t) ==
    LET got == LruGet(store, clientIp, t)
        entry == got.value
    IN IF WindowOver(entry, t)
       THEN [limited |-> FALSE,
             store |-> LruSet(got.store, clientIp, RateLimitEntry(1, t + RATE_LIMIT_WINDOW_MS), t)]
       ELSE IF QuotaReached(entry)
            THEN [limited |-> TRUE, store |-> got.store]
            ELSE [limited |-> FALSE,
                  store |-> LruSet(got.store, clientIp, [entry EXCEPT !.count = entry.count + 1], t)]

\* ------------------------------------------------------------------------
\* The quota store on its own: requests of one client that carries an
\* address, bursts of other clients, and time
\* ------------------------------------------------------------------------
NoAdmission == [key |-> "", at |-> 0, seen |-> NoEntry, prior |-> 0,
                limited |-> FALSE, stored |-> NoEntry, afterLimit |-> FALSE,
                ends |-> [k \in Keys |-> 0], within |-> [k \in Keys |-> 0]]

InitQuota ==
    /\ now = 0
    /\ requestRateLimit = EmptyStore
    /\ admittedInWindow = [k \in Keys |-> 0]
    /\ lastAdmission = NoAdmission

\* what one isRateLimited call for key k does to the store and the record
\* kept of it. Where a run follows the windows (followed), ends[k] and
\* within[k] follow one window of k from the call that starts it
\* (route.ts:38-40) to its expiry, whatever becomes of the entry: the instant
\* it expires, and the requests of k admitted in it (counted up to one above
\* the quota).
Admission(k, followed) ==
    LET seen == LruGet(requestRateLimit, k, now).value
        res == isRateLimited(requestRateLimit, k, now)
        fresh == ~seen.present \/ seen.expiresAt <= now
        open == now < lastAdmission.ends[k]
    IN /\ requestRateLimit' = res.store
       /\ admittedInWindow' = [admittedInWindow EXCEPT ![k] =
                                 IF res.limited THEN @ ELSE IF fresh THEN 1 ELSE @ + 1]
       /\ lastAdmission' = [key |-> k, at |-> now, seen |-> seen,
                            prior |-> admittedInWindow[k],
                            limited |-> res.limited,
                            stored |-> res.store.entries[k],
                            afterLimit |-> lastAdmission.key = k /\ lastAdmission.limited,
                            ends |-> [lastAdmission.ends EXCEPT ![k] =
                                        IF followed /\ ~open /\ fresh
                                        THEN now + RATE_LIMIT_WINDOW_MS ELSE @],
                            within |-> [lastAdmission.within EXCEPT ![k] =
                                          IF ~followed \/ res.limited THEN @
                                          ELSE IF open THEN Min(@ + 1, RATE_LIMIT_MAX_REQUESTS + 1)
                                          ELSE IF fresh THEN 1 ELSE @]]

\* route.ts:108-109 for one request
QuotaRequest(h) ==
    /\ Admission(getClientIp(h), FALSE)
    /\ UNCHANGED now
    /\ UNCHANGED histVars
    /\ UNCHANGED resolverVars
    /\ UNCHANGED handlerVars

\* route.ts:108-109 for one request, in a run that follows the windows
FollowedRequest(h) ==
    /\ Admission(getClientIp(h), TRUE)
    /\ UNCHANGED now
    /\ UNCHANGED histVars
    /\ UNCHANGED resolverVars
    /\ UNCHANGED handlerVars

\* OtherBurst other clients, each not yet in the store, send one request
\* each: every one of them is admitted with a new entry (route.ts:38-40)
OtherClientsRequest ==
    /\ requestRateLimit' =
          Evicted([requestRateLimit EXCEPT !.order =
                      Merged(Append(@, [key |-> OtherKeys, n |-> OtherBurst]))],
                  StoreSize(requestRateLimit.order) + OtherBurst - RATE_LIMIT_STORE_MAX)
    /\ UNCHANGED <<now, admittedInWindow, lastAdmission>>
    /\ UNCHANGED histVars
    /\ UNCHANGED resolverVars
    /\ UNCHANGED handlerVars

Tick ==
    /\ \E t \in Instants : t > now /\ now' = t
    /\ UNCHANGED <<requestRateLimit, admittedInWindow, lastAdmission>>
    /\ UNCHANGED histVars
    /\ UNCHANGED resolverVars
    /\ UNCHANGED handlerVars

\* ------------------------------------------------------------------------
\* The premium record of a document (route.ts:287-320)
\* ------------------------------------------------------------------------
\* A slug is a sequence of pieces, written with hyphens between them:
\* <<"delta", "green">> is delta-green.
Delta == <<"delta">>

DeltaGreen == <<"delta", "green">>

DeltaGreenConcentrate == <<"delta", "green", "concentrate">>

Ace == <<"ace">>

Slugs == {Delta, DeltaGreen, DeltaGreenConcentrate, Ace}

\* String.prototype.startsWith, on slugs
StartsWith(s, prefix) == Len(prefix) <= Len(s) /\ SubSeq(s, 1, Len(prefix)) = prefix

\* one entry of product_metadata.json
ProductRecord(key, variants) == [key |-> key, variants |-> variants]

\* let premiumMatch: any = null
Null == ProductRecord(<< >>, << >>)

ProductRecords ==
    {ProductRecord(k, << >>) : k \in Slugs}
        \cup {ProductRecord(k, <<v>>) : k \in Slugs, v \in Slugs}

DistinctKeys(records) ==
    \A i, j \in 1..Len(records) : records[i].key = records[j].key => i = j

\* the contents of product_metadata.json: up to MaxRecords entries, in the
\* order Object.entries gives them
StoredRecords ==
    {records \in UNION {[1..n -> ProductRecords] : n \in 1..MaxRecords} :
        DistinctKeys(records)}

\* a document identifier: directory, file name prefix, slug, what follows
\* the slug after a double underscore, extension
Document(dir, prefix, slug, tail, ext) ==
    [dir |-> dir, prefix |-> prefix, slug |-> slug, tail |-> tail, ext |-> ext]

Documents ==
    {Document(dir, prefix, slug, tail, ext) :
        dir \in {"", "sds/"}, prefix \in {"", "grounding__"}, slug \in Slugs,
        tail \in {"", "__v1"}, ext \in {".txt", ".pdf"}}

\* route.ts:304: the last path segment without prefixes and extensions
CleanName(document) == [slug |-> document.slug, tail |-> document.tail]

\* route.ts:305: the part before the first double underscore
FileKey(document) == CleanName(document).slug

\* mutant: a key the slug is a prefix of matches as well
MatchesRecordEitherWay(record, fileKey) ==
    \/ record.key = fileKey
    \/ \E i \in 1..Len(record.variants) :
          record.variants[i] = fileKey \/ StartsWith(fileKey, record.variants[i])
    \/ StartsWith(fileKey, record.key)
    \/ StartsWith(record.key, fileKey)

\* route.ts:311-314
MatchesRecord(record, fileKey) ==
    \/ record.key = fileKey
    \/ \E i \in 1..Len(record.variants) :
          record.variants[i] = fileKey \/ StartsWith(fileKey, record.variants[i])
    \/ StartsWith(fileKey, record.key)

\* route.ts:299-320: the first stored entry that matches, or null
PremiumMatch(metadata, fileKey) ==
    IF \E i \in 1..Len(metadata) : MatchesRecord(metadata[i], fileKey)
    THEN metadata[CHOOSE i \in 1..Len(metadata) :
                     /\ MatchesRecord(metadata[i], fileKey)
                     /\ \A j \in 1..(i - 1) : ~MatchesRecord(metadata[j], fileKey)]
    ELSE Null

NoLookupOfRecord ==
    /\ rpc = "input"
    /\ productMetadata = << >>
    /\ selectedDocument = Document("", "", Ace, "", ".txt")
    /\ premiumMatch = Null

\* ------------------------------------------------------------------------
\* The request handler POST (route.ts:99-428)
\* ------------------------------------------------------------------------
Slots == 1..MaxInFlight

\* -- responses (route.ts:102-105, 110-113, 122-125, 129-136, 418, 422-425)
NoResponse == [status |-> 0, code |-> "", payload |-> "none", details |-> ""]

Success == [status |-> 200, code |-> "", payload |-> "response", details |-> ""]

ErrorResponse(code, status) ==
    [status |-> status, code |-> code, payload |-> "error", details |-> ""]

ConfigurationError == ErrorResponse("CONFIGURATION_ERROR", 503)

RateLimited == ErrorResponse("RATE_LIMITED", 429)

ValidationError == ErrorResponse("VALIDATION_ERROR", 400)

InternalError ==
    [ErrorResponse("INTERNAL_ERROR", 500) EXCEPT !.details = "Unexpected server error"]

\* -- the message of the request body (route.ts:116-117)
\* A message is a string of `lead` blanks, `core` characters that neither
\* start nor end with a blank, and `trail` blanks; str = FALSE is a message
\* that is missing or not a string. kw: the text contains one of the
\* categoryKeywords of route.ts:230.
Message(str, lead, core, trail, kw) ==
    [str |-> str, lead |-> lead, core |-> core, trail |-> trail, kw |-> kw]

Length(m) == m.lead + m.core + m.trail

\* String.prototype.trim
Trim(m) == [m EXCEPT !.lead = 0, !.trail = 0]

EmptyString == Message(TRUE, 0, 0, 0, FALSE)

\* mutant: the message is used as sent, without trim()
NotTrimmed(body) == IF body.message.str THEN body.message ELSE EmptyString

\* route.ts:117
TrimmedMessage(body) == IF body.message.str THEN Trim(body.message) ELSE EmptyString

\* route.ts:121 and 128
InvalidMessage(message) == Length(message) = 0 \/ Length(message) > MAX_MESSAGE_LENGTH

Hello == Message(TRUE, 0, 2, 0, FALSE)

FloorDegreaser == Message(TRUE, 0, 29, 0, TRUE)

Messages == {Message(FALSE, 0, 0, 0, FALSE),
             Message(TRUE, 0, 0, 0, FALSE),
             Message(TRUE, 2, 0, 0, FALSE),
             Hello,
             FloorDegreaser,
             Message(TRUE, 1, MAX_MESSAGE_LENGTH, 1, FALSE),
             Message(TRUE, 0, MAX_MESSAGE_LENGTH + 1, 0, TRUE)}

\* req.json(): parsed = FALSE is a body that is not JSON
Body(m) == [parsed |-> TRUE, message |-> m, history |-> NotArray]

\* a body with the message m and the history h
BodyWith(m, h) == [Body(m) EXCEPT !.history = h]

NotJson == [parsed |-> FALSE, message |-> EmptyString, history |-> NotArray]

Bodies == {NotJson} \cup {Body(m) : m \in Messages}

\* -- the metadata snapshot and its cache (route.ts:12-15, 140-199)
\* a document whose name holds the letters of a decision keyword
GeneralPurpose == "grounding__general-purpose-cleaner.txt"

FileIndex == {"sds/ace.pdf", "grounding__ace.txt", GeneralPurpose}

NoSnapshot == [id |-> 0, files |-> {}, productGuide |-> "", zipcodes |-> ""]

\* what the delivery_zipcodes.json fetch can leave in the snapshot: nothing
\* (absent or failed), a JSON list of two zones, a JSON list of one of them,
\* JSON that is not a list
ZipTexts == {"", "zones", "other-zones", "not-a-list"}

Zone(zip, city, county) == [zip |-> zip, city |-> city, county |-> county]

GreatFalls == Zone("59401", "Great Falls", "Cascade")

Billings == Zone("59101", "Billings", "Yellowstone")

\* a delivery_zipcodes.json that is not JSON
NotJsonZips == "not-json"

\* route.ts:265-270: parsedZips; list = FALSE is a value without map(). For
\* text that is not JSON, JSON.parse throws and parsedZips stays [].
ParsedZips(zipcodes) ==
    IF zipcodes = "zones" THEN [list |-> TRUE, zones |-> <<GreatFalls, Billings>>]
    ELSE IF zipcodes = "other-zones" THEN [list |-> TRUE, zones |-> <<Billings>>]
    ELSE IF zipcodes = "not-a-list" THEN [list |-> FALSE, zones |-> << >>]
    ELSE [list |-> TRUE, zones |-> << >>]

\* what the product_guide.txt fetch gives: its text, or "" (absent or failed)
GuideTexts == {"remote", ""}

EmptyCache == [present |-> FALSE, value |-> NoSnapshot, start |-> 0]

\* mutant: an entry is stale as soon as its age reaches the ttl
StaleAtTtl(c, t) == t - c.start >= CACHE_TTL_MS

\* LRUCache: an entry is stale when its age exceeds the ttl
Stale(c, t) == t - c.start > CACHE_TTL_MS

\* cache.get('gcs_metadata'): a stale entry is deleted, undefined returned
CacheGet(c, t) ==
    IF c.present /\ ~Stale(c, t) THEN [hit |-> TRUE, value |-> c.value, cache |-> c]
    ELSE [hit |-> FALSE, value |-> NoSnapshot, cache |-> EmptyCache]

\* mutant: a snapshot already in the cache is not replaced
CacheSetKeepsFirst(snapshot, t) ==
    IF cache.present THEN cache ELSE [present |-> TRUE, value |-> snapshot, start |-> t]

\* cache.set('gcs_metadata', metadata)
CacheSet(snapshot, t) == [present |-> TRUE, value |-> snapshot, start |-> t]

\* mutant: the local guide file is not looked for
BuiltSnapshotWithoutFallback(n, guide, localGuide, zips) ==
    [id |-> n, files |-> FileIndex, productGuide |-> guide, zipcodes |-> zips]

\* route.ts:173-193: the n-th snapshot built; the local guide is used when
\* the fetched one is empty and the local file exists
BuiltSnapshot(n, guide, localGuide, zips) ==
    [id |-> n, files |-> FileIndex,
     productGuide |-> IF guide # "" THEN guide ELSE IF localGuide THEN "local" ELSE "",
     zipcodes |-> zips]

\* -- the classifier reply and its cleanup (route.ts:238-253)
\* A reply is the set of decision keywords its upper-cased text contains and
\* the name left of it once fences and quotes are removed.
Reply(kws, name) == [kws |-> kws, name |-> name]

keywords == <<"GUIDE", "DELIVERY", "CLARIFY", "NONE", "GENERAL">>

Replies == {Reply({"GUIDE"}, "GUIDE"), Reply({"DELIVERY"}, "DELIVERY"),
            Reply({"CLARIFY"}, "CLARIFY"), Reply({"NONE"}, "NONE"),
            Reply({"GENERAL"}, "GENERAL"), Reply({"NONE", "GUIDE"}, "NONE or GUIDE"),
            Reply({}, "sds/ace.pdf"), Reply({}, "grounding__ace.txt"),
            Reply({}, "grounding__zep.txt"), Reply({}, "")}

\* route.ts:243-253: the first keyword of the list that the reply contains,
\* or else the cleaned name
Cleanup(reply) ==
    IF \E i \in 1..Len(keywords) : keywords[i] \in reply.kws
    THEN keywords[CHOOSE i \in 1..Len(keywords) :
                     /\ keywords[i] \in reply.kws
                     /\ \A j \in 1..(i - 1) : keywords[j] \notin reply.kws]
    ELSE reply.name

IsPdf(name) == name = "sds/ace.pdf"

\* -- the text of a classifier response: its lines from top to bottom, each
\* line the words it holds from left to right (fences and quotes left out)
\* String.prototype.includes on the upper-cased word: the decision keywords
\* a word contains
Holds(word) ==
    IF word = GeneralPurpose THEN {"GENERAL"}
    ELSE {keywords[i] : i \in {j \in 1..Len(keywords) : keywords[j] = word}}

\* route.ts:244-246: the decision keywords upperSelected contains, on any
\* line
KeywordsIn(text) ==
    UNION {UNION {Holds(text[l][w]) : w \in 1..Len(text[l])} : l \in 1..Len(text)}

RECURSIVE Joined(_)
Joined(line) ==
    IF line = << >> THEN ""
    ELSE IF Len(line) = 1 THEN line[1]
    ELSE line[1] \o " " \o Joined(Tail(line))

\* route.ts:253: split('\n')[0].trim()
FirstLine(text) == IF text = << >> THEN "" ELSE Joined(text[1])

\* the reply a response text is to the cleanup
ReplyOf(text) == Reply(KeywordsIn(text), FirstLine(text))

\* what the classifier replies to a message is not known before it is asked
NotAsked == <<<<"(not asked)">>>>

\* the response texts of a run in which each message comes with the text
\* the classifier has for it
Answers == {<<<<"GUIDE">>>>, <<<<"DELIVERY">>>>, <<<<"CLARIFY">>>>, <<<<"NONE">>>>,
            <<<<"GENERAL">>>>,
            <<<<"NONE", "or", "GUIDE">>>>,
            <<<<"sds/ace.pdf">>, <<"NONE">>>>,
            <<<<"CLARIFY">>, <<"GUIDE">>>>,
            <<<<"sds/ace.pdf">>>>, <<<<"grounding__ace.txt">>>>, <<<<GeneralPurpose>>>>,
            <<<<"I", "am", "not", "sure", "which", "product", "you", "mean">>>>}

\* -- the context block (route.ts:257-358): which block it is, the catalog
\* guide it embeds, and the zones its list of delivery locations names
\* (none: the block says "No specific zipcode data found.")
Context(block, guide, zipList) == [block |-> block, guide |-> guide, zipList |-> zipList]

NoContext == Context("", "", << >>)

\* route.ts:257, 261, 281, 283, 285-358: the blocks that embed neither
Status(block) == Context(block, "", << >>)

\* mutant: the catalog guide is left out of the block
GuideContextEmpty(productGuide) == Context("GUIDE", "", << >>)

\* route.ts:263
GuideContext(productGuide) == Context("GUIDE", productGuide, << >>)

\* mutant: only the first zone is listed
DeliveryContextFirstZone(parsedZips) ==
    Context("DELIVERY", "", IF parsedZips = << >> THEN << >> ELSE <<parsedZips[1]>>)

\* route.ts:271-276
DeliveryContext(parsedZips) == Context("DELIVERY", "", parsedZips)

\* what the NONE block quotes: the place in body.history of the entry it is
\* taken from (0: none, the quotation is "") and the length of the text
NoQuote == [id |-> 0, content |-> 0]

\* route.ts:279-280: the content of the last entry of history with the role
\* user, or ""
RECURSIVE LastUserMsg(_)
LastUserMsg(h) ==
    IF h = << >> THEN NoQuote
    ELSE IF h[Len(h)].role = "user"
    THEN [id |-> h[Len(h)].id, content |-> h[Len(h)].content]
    ELSE LastUserMsg(SubSeq(h, 1, Len(h) - 1))

\* -- one request
\* sentMessage, did, modelCalls, threw, error, sent and response record what
\* the request was given and what it did (modelCalls: calls of the
\* generative model; threw, error: where an exception was raised, and its
\* message; classifier: the reply the classifier has for the message, where
\* the run fixes it); the other fields are the locals of POST.
Idle == [pc |-> "idle", sentMessage |-> EmptyString, message |-> EmptyString,
         classifier |-> NotAsked, recordLength |-> 0,
         history |-> << >>, lastUserMsg |-> NoQuote,
         meta |-> NoSnapshot, selectedFile |-> "", contextData |-> NoContext,
         technicalRecord |-> "", did |-> {}, modelCalls |-> 0, threw |-> "",
         error |-> "", sent |-> 0, response |-> NoResponse]

\* return NextResponse.json(...): the locals are gone
Responded(rq, response) ==
    [Idle EXCEPT !.pc = "done", !.sentMessage = rq.sentMessage, !.did = rq.did,
                 !.modelCalls = rq.modelCalls, !.threw = rq.threw, !.error = rq.error,
                 !.sent = rq.sent + 1, !.response = response]

\* mutant: the body is read before the try block is entered
InsideTryAfterBody(site) == site # "json"

\* route.ts:100 and 420: every await of the handler is inside the try block
InsideTry(site) == site \in {"json", "fetch", "classify", "context", "answer"}

\* route.ts:337: fileBuffer.toString()
RawRecordLength(size) == size

\* route.ts:335: pdfText.slice(0, 30000)
PdfRecordLength(size) == Min(size, TECHNICAL_RECORD_MAX)

\* the lengths of a document's text: short, at the limit, one above
RecordSizes == {1, TECHNICAL_RECORD_MAX, TECHNICAL_RECORD_MAX + 1}

\* the messages of the exceptions the generative model's calls raise
Errors == {"fetch failed", "429 Too Many Requests: quota exceeded"}

\* mutant: the message of the exception is passed on to the caller
ErrorPayloadWithDetails(error) == [InternalError EXCEPT !.details = error]

\* route.ts:422-425
ErrorPayload(error) == InternalError

\* an exception raised at `site` with message `error`: caught at
\* route.ts:420-426, or else it leaves the handler
Thrown(rq, site, error) ==
    IF InsideTry(site)
    THEN Responded([rq EXCEPT !.threw = site, !.error = error], ErrorPayload(error))
    ELSE [rq EXCEPT !.pc = "escaped", !.threw = site, !.error = error]

\* route.ts:360-415: the answering call is started
Answering(rq, contextData, technicalRecord) ==
    [rq EXCEPT !.pc = "answer", !.contextData = contextData,
               !.technicalRecord = technicalRecord, !.did = rq.did \cup {"answer"},
               !.modelCalls = rq.modelCalls + 1]

\* mutant: a failed read of the document is not caught where it happens
ReadFailedThrows(rq) ==
    Thrown([rq EXCEPT !.did = rq.did \cup {"read failed"}], "context", "download failed")

\* route.ts:340-343: the download or the text extraction failed
ReadFailed(rq) ==
    Answering([rq EXCEPT !.did = rq.did \cup {"read failed"}],
              Status("PRODUCT"), "could not be loaded")

\* route.ts:257-343, up to the next await
Dispatched(rq, selectedFile) ==
    LET r1 == [rq EXCEPT !.selectedFile = selectedFile]
    IN IF selectedFile \in {"CLARIFY", "GENERAL"}
       THEN Answering(r1, Status(selectedFile), "")
       ELSE IF selectedFile = "NONE"
       THEN [Answering(r1, Status(selectedFile), "")
               EXCEPT !.lastUserMsg = LastUserMsg(rq.history)]
       ELSE IF selectedFile = "GUIDE"
       THEN Answering(r1, GuideContext(rq.meta.productGuide), "")
       ELSE IF selectedFile = "DELIVERY"
       THEN IF ~ParsedZips(rq.meta.zipcodes).list
            THEN Thrown(r1, "context", "parsedZips.map is not a function")
            ELSE Answering(r1, DeliveryContext(ParsedZips(rq.meta.zipcodes).zones), "")
       ELSE IF selectedFile = ""
       THEN Answering(r1, Status("DEFAULT"), "")
       ELSE IF selectedFile \in rq.meta.files
       THEN [r1 EXCEPT !.pc = "download", !.did = rq.did \cup {"download"}]
       ELSE Answering(r1, Status("PRODUCT"), "")

\* mutant: no message is taken for a category search
isLikelySearchNever(message) == FALSE

\* route.ts:229-231
isLikelySearch(message) == message.kw

\* route.ts:199-240, up to the next await, with the snapshot in hand
Routed(rq, snapshot) ==
    LET r1 == [rq EXCEPT !.meta = snapshot]
    IN IF isLikelySearch(rq.message)
       THEN Dispatched(r1, Cleanup(Reply({"GUIDE"}, "GUIDE")))
       ELSE [r1 EXCEPT !.pc = "classify", !.did = rq.did \cup {"classify"},
                       !.modelCalls = rq.modelCalls + 1]

\* mutant: the credential is not checked
CredentialNotChecked(key) == FALSE

\* route.ts:101
MissingCredential(key) == ~key

\* the record of a cache.get call: seq tells one call from the next; at: when
\* it was made; fills, filledAt: the cache.set calls before it and the time
\* of the last; again: the call before it returned the same snapshot
NoLookup == [seq |-> 0, made |-> FALSE, hit |-> FALSE, snap |-> 0, at |-> 0,
             fills |-> 0, filledAt |-> 0, again |-> FALSE]

\* the record of the last cache.set call: n: how many so far; at: when;
\* guide: what the fetch of product_guide.txt gave; local: the local guide
\* file was looked for and found
NoFill == [n |-> 0, at |-> 0, guide |-> "", local |-> FALSE]

InitHandler ==
    /\ cache = EmptyCache
    /\ req = [r \in Slots |-> Idle]
    /\ arrived = 0
    /\ lastFill = NoFill
    /\ lastLookup = NoLookup

\* the quota store before the first request of a run: empty, or as 29
\* requests of ClientA at time 0 leave it
WarmStore ==
    [entries |-> [k \in Keys |-> IF k = ClientA
                                 THEN RateLimitEntry(RATE_LIMIT_MAX_REQUESTS - 1, RATE_LIMIT_WINDOW_MS)
                                 ELSE NoEntry],
     order |-> <<[key |-> ClientA, n |-> 1]>>]

AdmittedSoFar(store) == [k \in Keys |-> IF store.entries[k].present THEN store.entries[k].count ELSE 0]

\* route.ts:100-116: a request arrives; the credential check, the quota,
\* and the start of req.json()
Receive(r, headers, most) ==
    /\ req[r].pc \in {"idle", "done"}
    /\ arrived < most
    /\ arrived' = arrived + 1
    /\ \E h \in headers :
          IF MissingCredential(apiKeySet)
          THEN /\ req' = [req EXCEPT ![r] = Responded(Idle, ConfigurationError)]
               /\ UNCHANGED <<requestRateLimit, admittedInWindow>>
          ELSE LET clientIp == getClientIp(h)
                   seen == LruGet(requestRateLimit, clientIp, now).value
                   res == isRateLimited(requestRateLimit, clientIp, now)
               IN /\ requestRateLimit' = res.store
                  /\ admittedInWindow' = [admittedInWindow EXCEPT ![clientIp] =
                         IF res.limited THEN @
                         ELSE IF ~seen.present \/ seen.expiresAt <= now THEN 1 ELSE @ + 1]
                  /\ req' = [req EXCEPT ![r] =
                               IF res.limited
                               THEN Responded([Idle EXCEPT !.did = {"quota"}], RateLimited)
                               ELSE [Idle EXCEPT !.pc = "body", !.did = {"quota", "json"}]]
    /\ UNCHANGED <<now, lastAdmission, apiKeySet, cache, lastFill, lastLookup>>
    /\ UNCHANGED histVars
    /\ UNCHANGED resolverVars

\* route.ts:116-145: the body is read; validation; the cache lookup and,
\* on a miss, the start of the three fetches. sanitizeHistory(body?.history)
\* of route.ts:118 is read again at route.ts:279 (the NONE block) and at
\* route.ts:401; its own properties are followed from Sanitize on.
BodyParsed(r, bodies, answers) ==
    /\ req[r].pc = "body"
    /\ \E body \in bodies, answer \in answers :
          IF ~body.parsed
          THEN /\ req' = [req EXCEPT ![r] = Thrown(req[r], "json", "Unexpected token")]
               /\ UNCHANGED <<cache, lastLookup>>
          ELSE LET rq == [req[r] EXCEPT !.sentMessage = body.message,
                                        !.message = TrimmedMessage(body),
                                        !.classifier = answer,
                                        !.history = sanitizeHistory(body.history),
                                        !.did = req[r].did \cup {"validate"}]
                   got == CacheGet(cache, now)
                   look == [seq |-> 1 - lastLookup.seq, made |-> TRUE, hit |-> got.hit,
                            snap |-> got.value.id, at |-> now,
                            fills |-> lastFill.n, filledAt |-> lastFill.at,
                            again |-> lastLookup.hit /\ got.hit /\ lastLookup.snap = got.value.id]
               IN IF InvalidMessage(rq.message)
                  THEN /\ req' = [req EXCEPT ![r] = Responded(rq, ValidationError)]
                       /\ UNCHANGED <<cache, lastLookup>>
                  ELSE /\ cache' = got.cache
                       /\ lastLookup' = look
                       /\ req' = [req EXCEPT ![r] =
                                    IF got.hit
                                    THEN Routed([rq EXCEPT !.did = rq.did \cup {"cache.get"}], got.value)
                                    ELSE [rq EXCEPT !.pc = "fetch",
                                                    !.did = rq.did \cup {"cache.get", "getFiles", "guide", "zipcodes"}]]
    /\ UNCHANGED <<arrived, lastFill, apiKeySet>>
    /\ UNCHANGED quotaVars
    /\ UNCHANGED histVars
    /\ UNCHANGED resolverVars

\* route.ts:145-199: Promise.all settles; the snapshot is built and cached
FetchDone(r, guides, zipTexts) ==
    /\ req[r].pc = "fetch"
    /\ \E listed \in BOOLEAN, guide \in guides, localGuide \in BOOLEAN, zips \in zipTexts :
          IF ~listed
          THEN /\ req' = [req EXCEPT ![r] = Thrown(req[r], "fetch", "getFiles failed")]
               /\ UNCHANGED <<cache, lastFill>>
          ELSE LET metadata == BuiltSnapshot(lastFill.n + 1, guide, localGuide, zips)
               IN /\ cache' = CacheSet(metadata, now)
                  /\ lastFill' = [n |-> lastFill.n + 1, at |-> now, guide |-> guide,
                                   local |-> guide = "" /\ localGuide]
                  /\ req' = [req EXCEPT ![r] = Routed(req[r], metadata)]
    /\ UNCHANGED <<arrived, lastLookup, apiKeySet>>
    /\ UNCHANGED quotaVars
    /\ UNCHANGED histVars
    /\ UNCHANGED resolverVars

\* route.ts:238-253: the classification call settles
Classified(r, replies, errors) ==
    /\ req[r].pc = "classify"
    /\ \/ \E error \in errors : req' = [req EXCEPT ![r] = Thrown(req[r], "classify", error)]
       \/ \E reply \in IF req[r].classifier = NotAsked THEN replies
                         ELSE {ReplyOf(req[r].classifier)} :
             req' = [req EXCEPT ![r] = Dispatched(req[r], Cleanup(reply))]
    /\ UNCHANGED <<arrived, cache, lastFill, lastLookup, apiKeySet>>
    /\ UNCHANGED quotaVars
    /\ UNCHANGED histVars
    /\ UNCHANGED resolverVars

\* route.ts:326-343: the download settles
Downloaded(r, sizes) ==
    /\ req[r].pc = "download"
    /\ \E ok \in BOOLEAN, size \in sizes :
          req' = [req EXCEPT ![r] =
                    IF ~ok THEN ReadFailed(req[r])
                    ELSE IF IsPdf(req[r].selectedFile)
                    THEN [req[r] EXCEPT !.pc = "pdf", !.did = req[r].did \cup {"pdf"}]
                    ELSE [Answering(req[r], Status("PRODUCT"), "raw text")
                            EXCEPT !.recordLength = RawRecordLength(size)]]
    /\ UNCHANGED <<arrived, cache, lastFill, lastLookup, apiKeySet>>
    /\ UNCHANGED quotaVars
    /\ UNCHANGED histVars
    /\ UNCHANGED resolverVars

\* route.ts:329-343: the text extraction settles
PdfParsed(r, sizes) ==
    /\ req[r].pc = "pdf"
    /\ \E ok \in BOOLEAN, size \in sizes :
          req' = [req EXCEPT ![r] =
                    IF ok THEN [Answering(req[r], Status("PRODUCT"), "pdf text")
                                  EXCEPT !.recordLength = PdfRecordLength(size)]
                    ELSE ReadFailed(req[r])]
    /\ UNCHANGED <<arrived, cache, lastFill, lastLookup, apiKeySet>>
    /\ UNCHANGED quotaVars
    /\ UNCHANGED histVars
    /\ UNCHANGED resolverVars

\* route.ts:415-418: the answering call settles
Answered(r, errors) ==
    /\ req[r].pc = "answer"
    /\ \/ req' = [req EXCEPT ![r] = Responded(req[r], Success)]
       \/ \E error \in errors : req' = [req EXCEPT ![r] = Thrown(req[r], "answer", error)]
    /\ UNCHANGED <<arrived, cache, lastFill, lastLookup, apiKeySet>>
    /\ UNCHANGED quotaVars
    /\ UNCHANGED histVars
    /\ UNCHANGED resolverVars

\* the instants of a run of the handler: the start, the last instant at
\* which a snapshot cached at 0 is served, and the one after
HandlerInstants == {0, CACHE_TTL_MS, CACHE_TTL_MS + 1}

Elapse ==
    /\ \E t \in HandlerInstants : t > now /\ now' = t
    /\ UNCHANGED <<requestRateLimit, admittedInWindow, lastAdmission>>
    /\ UNCHANGED handlerVars
    /\ UNCHANGED histVars
    /\ UNCHANGED resolverVars

NoHistory ==
    /\ hpc = "input"
    /\ histIn = NotArray
    /\ history = << >>
    /\ mappedHistory = << >>

\* -- requests served one after the other, over every input
Init ==
    /\ now = 0
    /\ requestRateLimit \in {EmptyStore, WarmStore}
    /\ admittedInWindow = AdmittedSoFar(requestRateLimit)
    /\ lastAdmission = NoAdmission
    /\ apiKeySet \in BOOLEAN
    /\ InitHandler
    /\ NoHistory
    /\ NoLookupOfRecord

Step(r) ==
    \/ BodyParsed(r, Bodies, {NotAsked})
    \/ FetchDone(r, GuideTexts, ZipTexts)
    \/ Classified(r, Replies, Errors)
    \/ Downloaded(r, {1})
    \/ PdfParsed(r, {1})
    \/ Answered(r, Errors)

Next ==
    \/ Receive(1, HeadersOfClientA \cup HeadersUnknown, MaxSerial)
    \/ Step(1)
    \/ Elapse

Spec == Init /\ [][Next]_vars

\* -- requests in flight together, each asking for a floor degreaser: the
\* message holds a category keyword, so that the classifier is not called
InitConcurrent ==
    /\ now = 0
    /\ requestRateLimit = EmptyStore
    /\ admittedInWindow = AdmittedSoFar(requestRateLimit)
    /\ lastAdmission = NoAdmission
    /\ apiKeySet = TRUE
    /\ InitHandler
    /\ NoHistory
    /\ NoLookupOfRecord

NextConcurrent ==
    \/ \E r \in Slots : Receive(r, {NoHeader}, MaxRequests)
    \/ \E r \in Slots : BodyParsed(r, {Body(FloorDegreaser)}, {NotAsked})
    \/ \E r \in Slots : FetchDone(r, {"remote"}, {"zones"})
    \/ \E r \in Slots : Answered(r, {"fetch failed"})
    \/ Elapse

SpecConcurrent == InitConcurrent /\ [][NextConcurrent]_vars

\* -- a burst of one client: requests of ClientA in flight together, the
\* first of them arriving when ClientA is one request below its quota
InitBurst ==
    /\ now = 0
    /\ requestRateLimit = WarmStore
    /\ admittedInWindow = AdmittedSoFar(requestRateLimit)
    /\ lastAdmission = NoAdmission
    /\ apiKeySet = TRUE
    /\ InitHandler
    /\ NoHistory
    /\ NoLookupOfRecord

NextBurst ==
    \/ \E r \in Slots : Receive(r, HeadersOfClientA, MaxRequests)
    \/ \E r \in Slots : BodyParsed(r, {Body(FloorDegreaser)}, {NotAsked})
    \/ \E r \in Slots : FetchDone(r, {"remote"}, {"zones"})
    \/ \E r \in Slots : Answered(r, {"fetch failed"})
    \/ Elapse

SpecBurst == InitBurst /\ [][NextBurst]_vars

\* body.history as ChatWidget.tsx:50 sends it: the messages before the one
\* being submitted, the greeting first; or no array at all
Conversations ==
    {NotArray,
     ArrayOf(Numbered(<<Entry(TRUE, "assistant", GreetingLength)>>)),
     ArrayOf(Numbered(<<Entry(TRUE, "assistant", GreetingLength), U1, A1>>))}

\* -- requests served one after the other, each message coming with the
\* reply the classifier has for it
NextRouting ==
    \/ Receive(1, {NoHeader}, MaxSerial)
    \/ BodyParsed(1, {BodyWith(m, h) : m \in {Hello, FloorDegreaser}, h \in Conversations},
                  Answers)
    \/ FetchDone(1, GuideTexts, {"", "zones", "not-a-list", NotJsonZips})
    \/ Classified(1, Replies, {"fetch failed"})
    \/ Downloaded(1, RecordSizes)
    \/ PdfParsed(1, RecordSizes)
    \/ Answered(1, {"fetch failed"})
    \/ Elapse

SpecRouting == InitConcurrent /\ [][NextRouting]_vars

\* ------------------------------------------------------------------------
\* The handler: responses, credential, validation, metadata cache
\* ------------------------------------------------------------------------
DefinedResponses == {Success, ConfigurationError, RateLimited, ValidationError, InternalError}

\* C2: a request ends with exactly one response, the success payload or an
\* error payload with one of the four (code, status) pairs, whatever fails
\* inside the handler; no exception leaves the handler, and a request that
\* has not responded yet has sent nothing and can take its next step.
C2_ExactlyOneDefinedResponse ==
    \A r \in Slots :
        /\ req[r].pc # "escaped"
        /\ req[r].pc = "done" => req[r].sent = 1 /\ req[r].response \in DefinedResponses
        /\ req[r].pc \notin {"idle", "done"} =>
              /\ req[r].sent = 0
              /\ req[r].response = NoResponse
              /\ req[r].threw = ""
              /\ ENABLED Step(r)
        /\ req[r].threw # "" => req[r].response = InternalError

\* a request whose body was not JSON has been answered with INTERNAL_ERROR
C2_Witness ==
    /\ req[1].pc = "done"
    /\ req[1].threw = "json"
    /\ req[1].response = InternalError
    /\ req[1].sent = 1

\* C3: while the credential is missing, no step touches the quota store or
\* the metadata cache, no request gets past the credential check (it does
\* nothing else), and every response is CONFIGURATION_ERROR (503).
C3_MissingCredentialRejectsFirst ==
    [][~apiKeySet =>
          /\ requestRateLimit' = requestRateLimit
          /\ cache' = cache
          /\ lastLookup' = lastLookup
          /\ lastFill' = lastFill
          /\ \A r \in Slots :
                /\ req'[r].pc \in {"idle", "done"}
                /\ req'[r].did = {}
                /\ req'[r].pc = "done" =>
                      req'[r].response = ConfigurationError /\ req'[r].sent = 1]_vars

\* two requests were rejected for the missing credential while ClientA
\* stood one request below its quota
C3_Witness ==
    /\ ~apiKeySet
    /\ arrived >= 2
    /\ req[1].pc = "done"
    /\ req[1].response = ConfigurationError
    /\ requestRateLimit = WarmStore

\* the length of a message once the blanks around it are gone (0 for a
\* message that is missing or not a string)
TrimmedLength(m) == IF m.str THEN m.core ELSE 0

AfterValidation == {"cache.get", "getFiles", "guide", "zipcodes", "classify", "download", "pdf", "answer"}

\* C4: a request admitted by the quota whose trimmed message is empty
\* (missing and non-string included) or longer than MAX_MESSAGE_LENGTH is
\* answered VALIDATION_ERROR (400) with no metadata fetch, classification or
\* answering call; one whose trimmed message has 1..MAX_MESSAGE_LENGTH
\* characters passes validation and is never answered VALIDATION_ERROR.
C4_TrimmedMessageValidated ==
    \A r \in Slots :
        /\ "validate" \in req[r].did =>
              /\ (TrimmedLength(req[r].sentMessage) = 0
                    \/ TrimmedLength(req[r].sentMessage) > MAX_MESSAGE_LENGTH) =>
                    /\ req[r].pc = "done"
                    /\ req[r].response = ValidationError
                    /\ req[r].sent = 1
                    /\ req[r].did \cap AfterValidation = {}
              /\ TrimmedLength(req[r].sentMessage) \in 1..MAX_MESSAGE_LENGTH =>
                    /\ req[r].response # ValidationError
                    /\ "cache.get" \in req[r].did
        /\ req[r].response = ValidationError => "validate" \in req[r].did

\* a message of blanks only has been rejected
C4_Witness ==
    /\ req[1].pc = "done"
    /\ req[1].response = ValidationError
    /\ req[1].sentMessage.str
    /\ req[1].sentMessage.lead > 0
    /\ req[1].sentMessage.core = 0
    /\ "quota" \in req[1].did

\* a step in which cache.get is called
LookupMade == lastLookup'.seq # lastLookup.seq

\* a step in which the three fetches of a refill are started
FetchStarted == \E r \in Slots : req'[r].pc = "fetch" /\ req[r].pc # "fetch"

\* the lookup was made at most CACHE_TTL_MS after a snapshot was stored
Fresh(l) == l.fills > 0 /\ l.at - l.filledAt <= CACHE_TTL_MS

\* C10 as stated: a lookup that follows another, both within CACHE_TTL_MS of
\* the fill that came before the first, returns the same snapshot as the
\* first and starts no fetch.
C10_SameSnapshotWithinWindow ==
    [][(/\ LookupMade
        /\ lastLookup.made
        /\ Fresh(lastLookup)
        /\ lastLookup'.at - lastLookup.filledAt <= CACHE_TTL_MS) =>
           /\ lastLookup.hit
           /\ lastLookup'.hit
           /\ lastLookup'.snap = lastLookup.snap
           /\ ~FetchStarted]_vars

\* C10: a lookup that follows another, both within CACHE_TTL_MS of the fill
\* that came before the first and with no snapshot stored between the two,
\* returns the same snapshot as the first and starts no fetch; a lookup
\* returns a snapshot exactly when one was stored at most CACHE_TTL_MS
\* before it, and starts the fetches of a refill exactly when none was.
C10_SameSnapshotUnlessRefilled ==
    [][LookupMade =>
          /\ (/\ lastLookup.made
              /\ Fresh(lastLookup)
              /\ lastLookup'.at - lastLookup.filledAt <= CACHE_TTL_MS
              /\ lastLookup'.fills = lastLookup.fills) =>
                 /\ lastLookup.hit
                 /\ lastLookup'.hit
                 /\ lastLookup'.snap = lastLookup.snap
          /\ lastLookup'.hit <=> Fresh(lastLookup')
          /\ lastLookup'.hit => lastLookup'.snap = lastLookup'.fills
          /\ FetchStarted <=> ~Fresh(lastLookup')]_vars

\* two lookups in a row returned the same snapshot, the second one at the
\* last instant of its five minutes
C10_Witness ==
    /\ lastLookup.again
    /\ lastLookup.hit
    /\ lastLookup.at - lastLookup.filledAt = CACHE_TTL_MS

\* C11: when the fetches of a refill have settled, whichever of them failed,
\* the request goes on without an exception, with a snapshot that has the
\* file index, and that snapshot is the one the cache now holds.
C11_FetchFailureDegradesOneField ==
    [][\A r \in Slots :
          (req[r].pc = "fetch" /\ req'[r].pc # "fetch") =>
              /\ req'[r].threw = ""
              /\ req'[r].response # InternalError
              /\ req'[r].meta.id = lastFill.n + 1
              /\ cache'.present
              /\ cache'.value = req'[r].meta]_vars

\* a snapshot with every field set
Complete(snapshot) ==
    /\ snapshot.id > 0
    /\ snapshot.files = FileIndex
    /\ snapshot.productGuide \in {"remote", "local", ""}
    /\ snapshot.zipcodes \in ZipTexts

\* the requests that have a snapshot in hand
Proceeding(rq) == rq.pc \in {"classify", "download", "pdf", "answer"}

\* C12: after every step, the snapshot the cache holds and the snapshot of
\* every request that has gone past the metadata stage have every field
\* set; the snapshot stored last has the fetched guide, or the local guide
\* when the fetched one was empty and the local file exists; a request that
\* proceeds with the snapshot the cache holds has that very snapshot; a
\* refill that fails stores nothing; the cache changes only by storing a
\* new snapshot or by dropping an expired one, never by changing one.
C12_SnapshotsCompleteAndUnchanged ==
    [][/\ cache'.present => Complete(cache'.value)
       /\ (cache'.present /\ cache'.value.id = lastFill'.n) =>
              cache'.value.productGuide =
                  IF lastFill'.guide # "" THEN lastFill'.guide
                  ELSE IF lastFill'.local THEN "local" ELSE ""
       /\ \A r \in Slots :
             /\ Proceeding(req'[r]) => Complete(req'[r].meta)
             /\ (Proceeding(req'[r]) /\ cache'.present
                    /\ req'[r].meta.id = cache'.value.id) => req'[r].meta = cache'.value
             /\ (req[r].pc = "fetch" /\ req'[r].threw = "fetch") =>
                    cache' = cache /\ lastFill' = lastFill
       /\ cache' # cache =>
             \/ ~cache'.present
             \/ /\ lastFill'.n = lastFill.n + 1
                /\ cache'.value.id = lastFill'.n
                /\ \E r \in Slots : req[r].pc = "fetch" /\ req'[r].meta = cache'.value]_vars

\* a second request was served the stored snapshot, whose guide is the local
\* one because the fetched guide was empty
C12_Witness ==
    /\ cache.present
    /\ lastFill.local
    /\ cache.value.productGuide = "local"
    /\ lastLookup.hit
    /\ req[1].pc = "answer"
    /\ req[1].meta = cache.value

\* a request that went past the quota and has not responded yet
InFlight(r) == req[r].pc \in {"body", "fetch", "answer"}

\* C13: while the window of ClientA is open, the count stored for it is the
\* number of its requests admitted in that window, whatever steps of its
\* other requests come in between, and that number never exceeds
\* RATE_LIMIT_MAX_REQUESTS.
C13_NoIncrementLost ==
    /\ (requestRateLimit.entries[ClientA].present
           /\ requestRateLimit.entries[ClientA].expiresAt > now) =>
          requestRateLimit.entries[ClientA].count = admittedInWindow[ClientA]
    /\ admittedInWindow[ClientA] <= RATE_LIMIT_MAX_REQUESTS

\* the 30th request of the window is still in flight when the 31st has
\* been refused
C13_Witness ==
    /\ admittedInWindow[ClientA] = RATE_LIMIT_MAX_REQUESTS
    /\ requestRateLimit.entries[ClientA].count = RATE_LIMIT_MAX_REQUESTS
    /\ InFlight(1)
    /\ req[2].pc = "done"
    /\ req[2].response = RateLimited

\* C14: for a message that contains a category keyword, the decision the
\* context is built from is GUIDE and the context block is the GUIDE block
\* with the catalog guide of the request's snapshot.
C14_KeywordMessageRoutedToGuide ==
    \A r \in Slots :
        (req[r].pc = "answer" /\ req[r].message.kw) =>
            /\ req[r].selectedFile = "GUIDE"
            /\ req[r].contextData.block = "GUIDE"
            /\ req[r].contextData.guide = req[r].meta.productGuide

\* the question about a floor degreaser is about to be answered from the
\* fetched catalog guide
C14_Witness ==
    /\ req[1].pc = "answer"
    /\ req[1].message = FloorDegreaser
    /\ req[1].selectedFile = "GUIDE"
    /\ req[1].contextData = GuideContext("remote")

\* the zip code the delivery question names is the one of GreatFalls
NamedZip == GreatFalls.zip

\* a request about to be answered from the DELIVERY block
AnsweringDelivery(r) == req[r].pc = "answer" /\ req[r].selectedFile = "DELIVERY"

\* the zones of the snapshot name the zip / the block names it
ZipInZones(r) ==
    \E i \in 1..Len(ParsedZips(req[r].meta.zipcodes).zones) :
        ParsedZips(req[r].meta.zipcodes).zones[i].zip = NamedZip

ZipInContext(r) ==
    \E i \in 1..Len(req[r].contextData.zipList) :
        /\ req[r].contextData.zipList[i].zip = NamedZip
        /\ req[r].contextData.zipList[i].city = GreatFalls.city
        /\ req[r].contextData.zipList[i].county = GreatFalls.county

\* the block carries "No specific zipcode data found."
StatesNoData(r) == req[r].contextData.zipList = << >>

\* C16 as stated: for decision DELIVERY, the block has the city and county
\* of the named zip when the zones have it, and states that nothing was
\* found when they do not, other zones or not.
C16_AbsentZipStatesNoMatch ==
    \A r \in Slots :
        AnsweringDelivery(r) =>
            /\ ZipInZones(r) => ZipInContext(r)
            /\ ~ZipInZones(r) => StatesNoData(r)

\* C16: for decision DELIVERY, the block lists every zone of the snapshot,
\* in order, whatever zip the message names: it has the city and county of
\* the named zip exactly when the zones have it, and it states that no
\* zipcode data was found exactly when there are no zones at all.
C16_EveryZoneListed ==
    \A r \in Slots :
        AnsweringDelivery(r) =>
            /\ req[r].contextData.block = "DELIVERY"
            /\ req[r].meta.zipcodes = "zones" =>
                  req[r].contextData.zipList = <<GreatFalls, Billings>>
            /\ req[r].meta.zipcodes = "other-zones" =>
                  req[r].contextData.zipList = <<Billings>>
            /\ ZipInZones(r) <=> ZipInContext(r)
            /\ StatesNoData(r) <=> req[r].meta.zipcodes = ""

\* the named zip is not among the zones, another zone is, and the block
\* lists that zone
C16_Witness ==
    /\ AnsweringDelivery(1)
    /\ req[1].meta.zipcodes = "other-zones"
    /\ ~ZipInZones(1)
    /\ req[1].contextData.zipList = <<Billings>>

\* C17: a request whose document could not be downloaded or read is not
\* failed by it: the answering call is made with the PRODUCT block and the
\* "could not be loaded" marker as technical section, and the request ends
\* with the success payload unless the answering call itself throws.
C17_DocumentReadFailureDegrades ==
    \A r \in Slots :
        "read failed" \in req[r].did =>
            /\ req[r].pc \in {"answer", "done"}
            /\ "answer" \in req[r].did
            /\ req[r].threw \in {"", "answer"}
            /\ req[r].pc = "answer" =>
                  /\ req[r].technicalRecord = "could not be loaded"
                  /\ req[r].contextData.block = "PRODUCT"
            /\ (req[r].pc = "done" /\ req[r].threw = "") => req[r].response = Success
            /\ (req[r].pc = "done" /\ req[r].threw = "answer") =>
                  req[r].response = InternalError

\* the text of the data sheet could not be extracted and the caller has the
\* success payload
C17_Witness ==
    /\ req[1].pc = "done"
    /\ {"download", "pdf", "read failed", "answer"} \subseteq req[1].did
    /\ req[1].response = Success

\* C18: a request whose classification call or answering call threw has
\* ended with INTERNAL_ERROR (500) and the one fixed payload, whatever the
\* exception was, and the call that threw was the last call of the
\* generative model the request made.
C18_ModelFailureIsGenericError ==
    \A r \in Slots :
        req[r].threw \in {"classify", "answer"} =>
            /\ req[r].pc = "done"
            /\ req[r].sent = 1
            /\ req[r].response.status = 500
            /\ req[r].response.code = "INTERNAL_ERROR"
            /\ req[r].response.details = "Unexpected server error"
            /\ req[r].response = InternalError
            /\ req[r].threw = "classify" => req[r].modelCalls = 1 /\ "answer" \notin req[r].did
            /\ req[r].threw = "answer" =>
                  req[r].modelCalls = IF "classify" \in req[r].did THEN 2 ELSE 1

\* the answering call ran into the quota of the generative service after
\* the classification call had succeeded
C18_Witness ==
    /\ req[1].pc = "done"
    /\ req[1].threw = "answer"
    /\ req[1].error = "429 Too Many Requests: quota exceeded"
    /\ "classify" \in req[1].did
    /\ req[1].response = InternalError

\* a request that found the cache empty and has built its snapshot
Refilled(r) == Proceeding(req[r]) /\ "getFiles" \in req[r].did

\* C19: of the requests that found the cache empty, each has built a
\* snapshot of its own and proceeds with it, complete; the cache holds the
\* snapshot stored last; and a request has failed only where a remote call
\* of its own failed.
C19_ColdCacheRace ==
    /\ \A r \in Slots :
          /\ Proceeding(req[r]) => Complete(req[r].meta)
          /\ Refilled(r) =>
                \A q \in Slots \ {r} : Refilled(q) => req[q].meta.id # req[r].meta.id
          /\ req[r].threw # "" =>
                \/ req[r].threw = "fetch" /\ req[r].error = "getFiles failed"
                \/ req[r].threw = "answer" /\ req[r].error \in Errors
    /\ cache.present => Complete(cache.value) /\ cache.value.id = lastFill.n

\* two requests found the cache empty; both are about to be answered, each
\* from its own snapshot, and the cache holds the second one
C19_Witness ==
    /\ Refilled(1)
    /\ Refilled(2)
    /\ req[1].pc = "answer"
    /\ req[2].pc = "answer"
    /\ lastFill.n = 2
    /\ cache.present
    /\ cache.value = req[1].meta
    /\ req[2].meta.id = 1

\* C20: for a message that holds a category keyword and for which the
\* classifier answers DELIVERY or CLARIFY, the decision is the classifier's
\* answer, not GUIDE.
C20_ClassifierAnswerKept ==
    \A r \in Slots :
        /\ req[r].pc = "answer"
        /\ req[r].message.kw
        /\ Cleanup(ReplyOf(req[r].classifier)) \in {"DELIVERY", "CLARIFY"}
        => req[r].selectedFile = Cleanup(ReplyOf(req[r].classifier))

\* the request in slot r has a decision taken from the classifier's response
Decided(r) ==
    /\ "classify" \in req[r].did
    /\ req[r].classifier # NotAsked
    /\ req[r].pc \in {"download", "pdf", "answer"}

\* the leftmost word of a line that holds a decision keyword, or 0
Leftmost(line) ==
    IF \E w \in 1..Len(line) : Holds(line[w]) # {}
    THEN CHOOSE w \in 1..Len(line) :
            /\ Holds(line[w]) # {}
            /\ \A v \in 1..(w - 1) : Holds(line[v]) = {}
    ELSE 0

\* C21: the decision is the decision keyword that stands leftmost in the
\* first line of the classifier's response; a keyword that stands only on a
\* later line is not selected.
C21_LeftmostKeywordOfFirstLine ==
    \A r \in Slots :
        Decided(r) =>
            LET line == req[r].classifier[1]
            IN IF Leftmost(line) # 0
               THEN req[r].selectedFile \in Holds(line[Leftmost(line)])
               ELSE req[r].selectedFile = FirstLine(req[r].classifier)

\* the tags of the fixed vocabulary of decisions
Tags == {"CLARIFY", "GUIDE", "DELIVERY", "USE_CASE", "GENERAL", "NONE"}

\* a response that is no token: its first line holds whitespace
Conversational(text) == text # << >> /\ Len(text[1]) > 1

\* C22: a classifier output that is neither a decision keyword nor an
\* identifier of the file index, and that holds whitespace, is decided NONE:
\* the decision acted on is a tag of the vocabulary or an identifier of the
\* file index, and the context does not report PRODUCT IDENTIFIED for it.
C22_ImplausibleOutputIsNone ==
    \A r \in Slots :
        Decided(r) =>
            /\ req[r].selectedFile \in Tags \cup req[r].meta.files
            /\ /\ Conversational(req[r].classifier)
               /\ KeywordsIn(req[r].classifier) = {}
               /\ FirstLine(req[r].classifier) \notin req[r].meta.files
               => /\ req[r].selectedFile = "NONE"
                  /\ req[r].contextData.block # "PRODUCT"

\* the response is one identifier and nothing else
Exactly(text, name) == text = <<<<name>>>>

\* C23: when the classifier returns exactly an identifier of the file index,
\* the decision is that identifier and that document is downloaded, also
\* for an identifier whose name holds the letters of a decision keyword.
C23_IndexedIdentifierIsDownloaded ==
    \A r \in Slots : \A name \in req[r].meta.files :
        Decided(r) /\ Exactly(req[r].classifier, name) =>
            /\ req[r].selectedFile = name
            /\ "download" \in req[r].did

\* C26: for a document decision, the technical text placed in the context
\* block is at most 30000 characters long, for a PDF document whose text
\* was extracted and for a plain-text document used raw.
C26_TechnicalRecordCapped ==
    \A r \in Slots :
        (req[r].pc = "answer" /\ req[r].technicalRecord \in {"pdf text", "raw text"})
        => req[r].recordLength <= TECHNICAL_RECORD_MAX

\* C27: for the decision NONE the context block quotes the most recent
\* text of the user, which is the message of the request; the quoted text
\* is never empty.
C27_NoneQuotesCurrentMessage ==
    \A r \in Slots :
        (req[r].pc = "answer" /\ req[r].selectedFile = "NONE") =>
            /\ req[r].lastUserMsg.content > 0
            /\ req[r].lastUserMsg.content = Length(req[r].message)

\* C29: for the decision DELIVERY the request is not failed by the cached
\* delivery-zone text, whatever it is: when the text is absent or empty, is
\* not JSON, or is JSON that is no list of zones, the block is the DELIVERY
\* block with "No specific zipcode data found." and the answering call is
\* made.
C29_ZoneTextNeverFailsRequest ==
    \A r \in Slots :
        /\ req[r].threw # "context"
        /\ (AnsweringDelivery(r) /\ req[r].meta.zipcodes \in {"", NotJsonZips, "not-a-list"})
           => /\ req[r].contextData.block = "DELIVERY"
              /\ StatesNoData(r)

\* ------------------------------------------------------------------------
\* The quota store on its own
\* ------------------------------------------------------------------------
InitQuotaOnly ==
    /\ InitQuota
    /\ apiKeySet = TRUE
    /\ InitHandler
    /\ NoHistory
    /\ NoLookupOfRecord

NextQuota ==
    \/ \E h \in HeadersOfClientA : QuotaRequest(h)
    \/ \E h \in HeadersUnknown :
          admittedInWindow[Unknown] < MaxUnknown /\ QuotaRequest(h)
    \/ OtherClientsRequest
    \/ Tick

SpecQuota == InitQuotaOnly /\ [][NextQuota]_vars

\* -- one client with an address among bursts of other clients, its windows
\* followed from their start to their expiry
NextEviction ==
    \/ \E h \in HeadersOfClientA : FollowedRequest(h)
    \/ OtherClientsRequest
    \/ Tick

SpecEviction == InitQuotaOnly /\ [][NextEviction]_vars

\* ------------------------------------------------------------------------
\* Claims about the quota (checked under SpecQuota)
\* ------------------------------------------------------------------------
\* the entry the call found is of a window that is still open
SawOpenWindow(a) == a.seen.present /\ a.seen.expiresAt > a.at

\* C1: for every client key, a request that finds the window open after
\* exactly 30 requests were admitted in it is rejected and leaves the entry
\* as it was; the requests before it in the window are admitted; and a
\* request that comes when the window has expired is admitted and starts a
\* new window: count 1, expiring RATE_LIMIT_WINDOW_MS later.
C1_ThirtyPerWindow ==
    lastAdmission.key # "" =>
        /\ (SawOpenWindow(lastAdmission) /\ lastAdmission.prior = RATE_LIMIT_MAX_REQUESTS)
              => /\ lastAdmission.limited
                 /\ lastAdmission.stored = lastAdmission.seen
        /\ (SawOpenWindow(lastAdmission) /\ lastAdmission.prior < RATE_LIMIT_MAX_REQUESTS)
              => /\ ~lastAdmission.limited
                 /\ lastAdmission.stored.count = lastAdmission.prior + 1
                 /\ lastAdmission.stored.expiresAt = lastAdmission.seen.expiresAt
        /\ ~SawOpenWindow(lastAdmission)
              => /\ ~lastAdmission.limited
                 /\ lastAdmission.stored.present
                 /\ lastAdmission.stored.count = 1
                 /\ lastAdmission.stored.expiresAt = lastAdmission.at + RATE_LIMIT_WINDOW_MS
        /\ lastAdmission.prior <= RATE_LIMIT_MAX_REQUESTS

\* C28: a client's quota entry is not lost before its window expires: the
\* requests of the client admitted between the start of a window and the
\* expiry of that window never exceed RATE_LIMIT_MAX_REQUESTS, whatever the
\* other clients send and whatever the store evicts.
C28_EntryKeptUntilExpiry ==
    \A k \in Keys :
        /\ lastAdmission.within[k] <= RATE_LIMIT_MAX_REQUESTS
        /\ now < lastAdmission.ends[k] => requestRateLimit.entries[k].present

\* the first request after the expiry of a window in which 30 requests were
\* admitted and the next one was rejected
C1_Witness ==
    /\ lastAdmission.key = ClientA
    /\ lastAdmission.afterLimit
    /\ lastAdmission.prior = RATE_LIMIT_MAX_REQUESTS
    /\ lastAdmission.seen.present
    /\ lastAdmission.seen.count = RATE_LIMIT_MAX_REQUESTS
    /\ lastAdmission.seen.expiresAt = lastAdmission.at
    /\ ~lastAdmission.limited
    /\ lastAdmission.stored.count = 1

\* ------------------------------------------------------------------------
\* The history pipeline of one request, over every generated history
\* ------------------------------------------------------------------------
InitHist ==
    /\ hpc = "input"
    /\ histIn \in HistInputs
    /\ history = << >>
    /\ mappedHistory = << >>
    /\ InitQuota
    /\ apiKeySet = TRUE
    /\ InitHandler
    /\ NoLookupOfRecord

\* route.ts:118
Sanitize ==
    /\ hpc = "input"
    /\ history' = sanitizeHistory(histIn)
    /\ hpc' = "sanitized"
    /\ UNCHANGED <<histIn, mappedHistory>>
    /\ UNCHANGED quotaVars
    /\ UNCHANGED handlerVars
    /\ UNCHANGED resolverVars

\* route.ts:401-409
MapHistory ==
    /\ hpc = "sanitized"
    /\ mappedHistory' = MappedHistory(history)
    /\ hpc' = "mapped"
    /\ UNCHANGED <<histIn, history>>
    /\ UNCHANGED quotaVars
    /\ UNCHANGED handlerVars
    /\ UNCHANGED resolverVars

NextHist == Sanitize \/ MapHistory

SpecHist == InitHist /\ [][NextHist]_vars

\* ------------------------------------------------------------------------
\* Claims about the history pipeline (checked under SpecHist)
\* ------------------------------------------------------------------------
\* the entries of the request body that survive route.ts:55-60, read off the
\* request itself: objects whose content is a non-empty string
ValidEntries(items) ==
    SelectSeq(items, LAMBDA e : e.obj /\ e.content # NonString /\ e.content > 0)

RECURSIVE SumCut(_)
SumCut(s) == IF s = << >> THEN 0
             ELSE Min(Head(s).content, MAX_MESSAGE_LENGTH) + SumCut(Tail(s))

LastValid == SliceLast(ValidEntries(histIn.items), MAX_HISTORY_ITEMS)

\* C5 as stated: a history of more than 12 entries is returned as exactly
\* its 12 most recent entries, in their original order.
C5_LastTwelveOfInput ==
    (hpc # "input" /\ histIn.array /\ Len(histIn.items) > MAX_HISTORY_ITEMS)
        => Ids(history) = Ids(SliceLast(histIn.items, MAX_HISTORY_ITEMS))

\* C5 amended: when more than 12 entries of the history are valid (objects
\* with non-empty string content) and the 12 most recent valid ones, each cut
\* to 1000 characters, total at most 6000 characters, sanitizeHistory
\* returns exactly those 12, in their original order.
C5_LastTwelveValidWithinBudget ==
    (/\ hpc # "input"
     /\ histIn.array
     /\ Len(ValidEntries(histIn.items)) > MAX_HISTORY_ITEMS
     /\ SumCut(LastValid) <= MAX_HISTORY_CONTENT_LENGTH)
        => /\ Ids(history) = Ids(LastValid)
           /\ \A i \in 1..Len(history) :
                 history[i].content = Min(LastValid[i].content, MAX_MESSAGE_LENGTH)

C5_Witness ==
    /\ hpc = "sanitized"
    /\ histIn.array
    /\ Len(ValidEntries(histIn.items)) > MAX_HISTORY_ITEMS
    /\ Len(histIn.items) > Len(ValidEntries(histIn.items))
    /\ Len(history) = MAX_HISTORY_ITEMS
    /\ history[1].id > 1

\* C6: the sanitized history totals at most 6000 characters, each entry has
\* between 1 and 1000 characters, and there are at most 12 entries.
C6_SanitizedWithinBounds ==
    hpc # "input" =>
        /\ SumContent(history) <= MAX_HISTORY_CONTENT_LENGTH
        /\ Len(history) <= MAX_HISTORY_ITEMS
        /\ \A i \in 1..Len(history) :
              history[i].content >= 1 /\ history[i].content <= MAX_MESSAGE_LENGTH

C6_Witness ==
    /\ hpc = "sanitized"
    /\ histIn.array
    /\ Len(histIn.items) > MAX_HISTORY_ITEMS
    /\ \E i \in 1..Len(histIn.items) : histIn.items[i].content > MAX_MESSAGE_LENGTH
    /\ SumCut(LastValid) > MAX_HISTORY_CONTENT_LENGTH
    /\ SumContent(history) = MAX_HISTORY_CONTENT_LENGTH

IsSuffix(s, t) ==
    /\ Len(s) <= Len(t)
    /\ s = SubSeq(t, Len(t) - Len(s) + 1, Len(t))

\* C7: when the count-trimmed history exceeds the character budget, the
\* sanitized history is a contiguous suffix of it (oldest entries dropped
\* first, the most recent turn always kept).
C7_SuffixOfTrimmed ==
    (/\ hpc # "input"
     /\ histIn.array
     /\ SumContent(TrimmedHistory(histIn.items)) > MAX_HISTORY_CONTENT_LENGTH)
        => /\ IsSuffix(history, TrimmedHistory(histIn.items))
           /\ history # << >>

\* C8: the history given to the answering call is the longest suffix of the
\* sanitized history that is empty or starts with a user turn; order and
\* content of the turns kept are unchanged.
C8_LongestSuffixFromUserTurn ==
    hpc = "mapped" =>
        \E k \in 0..Len(history) :
            /\ \A i \in 1..k : history[i].role = "model"
            /\ k < Len(history) => history[k + 1].role = "user"
            /\ Len(mappedHistory) = Len(history) - k
            /\ \A j \in 1..(Len(history) - k) :
                  /\ mappedHistory[j].id = history[k + j].id
                  /\ mappedHistory[j].role = history[k + j].role
                  /\ mappedHistory[j].text = history[k + j].content

Roles(s) == [i \in 1..Len(s) |-> s[i].role]

C8_Witness ==
    /\ hpc = "mapped"
    /\ Roles(history) = <<"model", "user", "model">>
    /\ Roles(mappedHistory) = <<"user", "model">>

InitResolver ==
    /\ rpc = "input"
    /\ productMetadata \in StoredRecords
    /\ selectedDocument \in Documents
    /\ premiumMatch = Null
    /\ InitQuota
    /\ apiKeySet = TRUE
    /\ InitHandler
    /\ NoHistory

\* route.ts:298-320
ResolvePremium ==
    /\ rpc = "input"
    /\ premiumMatch' = PremiumMatch(productMetadata, FileKey(selectedDocument))
    /\ rpc' = "resolved"
    /\ UNCHANGED <<productMetadata, selectedDocument>>
    /\ UNCHANGED histVars
    /\ UNCHANGED quotaVars
    /\ UNCHANGED handlerVars

NextResolver == ResolvePremium

SpecResolver == InitResolver /\ [][NextResolver]_vars

\* the slug is one of the variants of the i-th stored record
VariantOf(i) ==
    \E n \in 1..Len(productMetadata[i].variants) :
        productMetadata[i].variants[n] = FileKey(selectedDocument)

\* C15: when the slug of the document equals a variant of exactly one stored
\* record and equals no stored key, the lookup gives that record, whatever
\* else is stored and in whatever order.
C15_VariantOfOneRecordResolves ==
    rpc = "resolved" =>
        \A i \in 1..Len(productMetadata) :
            (/\ VariantOf(i)
             /\ \A j \in 1..Len(productMetadata) : VariantOf(j) => j = i
             /\ \A j \in 1..Len(productMetadata) :
                   productMetadata[j].key # FileKey(selectedDocument)) =>
                premiumMatch = productMetadata[i]

\* the key of the i-th stored record is the slug
KeyOf(i) == productMetadata[i].key = FileKey(selectedDocument)

\* the stored records, last first
Reversed(records) == [i \in 1..Len(records) |-> records[Len(records) + 1 - i]]

\* C24: the record whose key equals the slug is returned even when a record
\* stored earlier matches through a variant or a prefix; a record with a
\* variant equal to the slug outranks any prefix match; the result does not
\* depend on the order in which the records are stored.
C24_PriorityOverWholeRecordSet ==
    rpc = "resolved" =>
        /\ \A i \in 1..Len(productMetadata) : KeyOf(i) => premiumMatch = productMetadata[i]
        /\ (/\ \A i \in 1..Len(productMetadata) : ~KeyOf(i)
            /\ \E i \in 1..Len(productMetadata) : VariantOf(i))
           => \E i \in 1..Len(productMetadata) :
                 VariantOf(i) /\ premiumMatch = productMetadata[i]
        /\ premiumMatch = PremiumMatch(Reversed(productMetadata), FileKey(selectedDocument))

\* no key and no variant of a stored record equals the slug
NothingEqual ==
    \A i \in 1..Len(productMetadata) : ~KeyOf(i) /\ ~VariantOf(i)

PrefixOfSlug(i) ==
    \/ StartsWith(FileKey(selectedDocument), productMetadata[i].key)
    \/ \E n \in 1..Len(productMetadata[i].variants) :
          StartsWith(FileKey(selectedDocument), productMetadata[i].variants[n])

Product(sku, shortDesc, longDesc) == [SKU |-> sku, shortDesc |-> shortDesc, longDesc |-> longDesc]

Skus == {Delta, DeltaGreen, DeltaGreenConcentrate}

Products ==
    {Product(sku, shortDesc, longDesc) :
        sku \in Skus, shortDesc \in {0, 3, 6}, longDesc \in {0, 6}}
        \cup {Product(<< >>, 6, 0)}

\* parseCSV(csvContent): the rows in file order
Csvs == UNION {[1..n -> Products] : n \in 0..MaxRows}

\* the variants lists of a stored record: none, one, two, one twice
VariantLists == {<< >>} \cup {<<v>> : v \in Skus} \cup {<<v, w>> : v, w \in Skus}

\* no record's variants holds the record's own key
NoOwnKey(metadata) ==
    \A i \in 1..Len(metadata) : \A n \in 1..Len(metadata[i].variants) :
        metadata[i].variants[n] # metadata[i].key

\* no variants list holds the same identifier twice
NoTwice(metadata) ==
    \A i \in 1..Len(metadata) : \A n, m \in 1..Len(metadata[i].variants) :
        metadata[i].variants[n] = metadata[i].variants[m] => n = m

\* the keys stored before a run
BaseSkus == {Delta, DeltaGreen}

\* product_metadata.json before a run: up to MaxRecords records, none with
\* its own key among its variants
HarvestStored ==
    {metadata \in UNION {[1..n -> {ProductRecord(k, v) : k \in BaseSkus, v \in VariantLists}] :
                           n \in 0..MaxRecords} :
        DistinctKeys(metadata) /\ NoOwnKey(metadata)}

\* part_000:215-223: a row with a description is a base product; a record
\* that exists keeps its variants and its place
Ingested(metadata, p) ==
    IF p.SKU # << >> /\ (p.shortDesc > 5 \/ p.longDesc > 5)
    THEN IF \E i \in 1..Len(metadata) : metadata[i].key = p.SKU
         THEN metadata
         ELSE Append(metadata, ProductRecord(p.SKU, << >>))
    ELSE metadata

\* part_000:207-224
RECURSIVE FirstPass(_, _)
FirstPass(metadata, products) ==
    IF products = << >> THEN metadata
    ELSE FirstPass(Ingested(metadata, Head(products)), Tail(products))

Includes(variants, sku) == \E n \in 1..Len(variants) : variants[n] = sku

\* mutant: a SKU is linked to the record of its own key as well
LinkedAlsoToItself(metadata, p) ==
    IF p.SKU # << >> /\ p.shortDesc = 0
    THEN [i \in 1..Len(metadata) |->
            IF /\ StartsWith(p.SKU, metadata[i].key)
               /\ ~Includes(metadata[i].variants, p.SKU)
            THEN [metadata[i] EXCEPT !.variants = Append(@, p.SKU)]
            ELSE metadata[i]]
    ELSE metadata

\* part_000:231-239: a row without short description is linked to every
\* record whose key its SKU starts with
Linked(metadata, p) ==
    IF p.SKU # << >> /\ p.shortDesc = 0
    THEN [i \in 1..Len(metadata) |->
            IF /\ StartsWith(p.SKU, metadata[i].key)
               /\ p.SKU # metadata[i].key
               /\ ~Includes(metadata[i].variants, p.SKU)
            THEN [metadata[i] EXCEPT !.variants = Append(@, p.SKU)]
            ELSE metadata[i]]
    ELSE metadata

\* part_000:227-241
RECURSIVE SecondPass(_, _)
SecondPass(metadata, products) ==
    IF products = << >> THEN metadata
    ELSE SecondPass(Linked(metadata, Head(products)), Tail(products))

\* part_000:193-246
harvest(metadata, products) == SecondPass(FirstPass(metadata, products), products)

InitHarvest ==
    /\ rpc = "stored"
    /\ productMetadata \in HarvestStored
    /\ selectedDocument = Document("", "", Ace, "", ".txt")
    /\ premiumMatch = Null
    /\ InitQuota
    /\ apiKeySet = TRUE
    /\ InitHandler
    /\ NoHistory

\* one run of the script
Harvest ==
    /\ rpc = "stored"
    /\ \E products \in Csvs : productMetadata' = harvest(productMetadata, products)
    /\ rpc' = "harvested"
    /\ UNCHANGED <<selectedDocument, premiumMatch>>
    /\ UNCHANGED histVars
    /\ UNCHANGED quotaVars
    /\ UNCHANGED handlerVars

NextHarvest == Harvest

SpecHarvest == InitHarvest /\ [][NextHarvest]_vars

\* C30 as stated: after a run of the harvest over any CSV, from a stored
\* dataset in which no record's variants holds its own key, no record's
\* variants holds its own key and no variants list holds the same identifier
\* twice.
C30_NoOwnKeyNoTwice ==
    [][NoOwnKey(productMetadata) =>
          NoOwnKey(productMetadata') /\ NoTwice(productMetadata')]_vars

\* C30: after a run of the harvest over any CSV, from a stored dataset in
\* which no record's variants holds its own key and no variants list holds
\* the same identifier twice, no record's variants holds its own key and no
\* variants list holds the same identifier twice.
C30_CleanStaysClean ==
    [][(NoOwnKey(productMetadata) /\ NoTwice(productMetadata)) =>
          NoOwnKey(productMetadata') /\ NoTwice(productMetadata')]_vars

\* a run has left the record delta with delta-green and
\* delta-green-concentrate linked to it, each once
C30_Witness ==
    /\ rpc = "harvested"
    /\ productMetadata = <<ProductRecord(Delta, <<DeltaGreen, DeltaGreenConcentrate>>)>>

====
